---- MODULE Spec2Model ----
(***************************************************************************)
(* Model of the pull-request verification plugin (verify/plugin.go) and of *)
(* the PR-title type check (verify/type.go).                               *)
(*                                                                         *)
(* Go strings that carry text (titles, messages, summaries, bodies) are    *)
(* sequences of tokens, so that formatting and prefix stripping are real   *)
(* operations.  A Go error value is the chain of its layers, outermost     *)
(* first; the nil error is the empty chain.                                *)
(***************************************************************************)
EXTENDS Naturals, Sequences, FiniteSets

VARIABLES runs, last

vars == <<runs, last>>

(***************************************************************************)
(* Bounds of the model.                                                    *)
(***************************************************************************)
MaxRuns == 2

MaxChain == 2

\* The most remote calls one handler issues (list, create, update, create).
MaxCalls == 4

(***************************************************************************)
(* Error values.                                                           *)
(***************************************************************************)
NoErr == <<>>

\* One layer of an error chain: its Error() text, the methods it has besides
\* Error(), and the text its extra method (Help or Details) returns.
Layer(msg, methods, ext) == [msg |-> msg, methods |-> methods, ext |-> ext]

errorsNew(msg) == <<Layer(msg, {}, <<>>)>>

\* fmt.Errorf("<prefix>: %w", err): a new outer layer that wraps err.
ErrorfW(prefix, err) == <<Layer(<<prefix>> \o err[1].msg, {}, <<>>)>> \o err

\* fmt.Errorf("failed: %v", x): the text only, nothing wrapped.
ErrorfV(prefix, text) == <<Layer(<<prefix>> \o text, {}, <<>>)>>

\* err.Error(): the message of the outermost layer.
Error(err) == err[1].msg

\* The error interface extended with Help() string.
ErrorWithHelp(layer) == "Help" \in layer.methods

\* errors.As(err, &helpErr): the first layer of the chain that implements
\* ErrorWithHelp, 0 when there is none.
RECURSIVE errorsAsFrom(_, _)
errorsAsFrom(err, i) ==
    IF i > Len(err) THEN 0
    ELSE IF ErrorWithHelp(err[i]) THEN i
    ELSE errorsAsFrom(err, i + 1)

errorsAs(err) == errorsAsFrom(err, 1)

Help(layer) == layer.ext

(***************************************************************************)
(* Title classifier (notes/common) and the PR type check.                  *)
(***************************************************************************)
UncategorizedPR == "uncategorized"

PrefixTable ==
    << [emoji |-> "U+26A0",  code |-> ":warning:",  type |-> "breaking"],
       [emoji |-> "U+2728",  code |-> ":sparkles:", type |-> "feature"],
       [emoji |-> "U+1F41B", code |-> ":bug:",      type |-> "bugfix"],
       [emoji |-> "U+1F4D6", code |-> ":book:",     type |-> "docs"],
       [emoji |-> "U+1F331", code |-> ":seedling:", type |-> "infra"] >>

Emoji(prType) ==
    LET i == CHOOSE k \in 1..Len(PrefixTable) : PrefixTable[k].type = prType
    IN  PrefixTable[i].emoji

\* classify(title) -> (category, cleaned title)
PRTypeFromTitle(title) ==
    LET hits == { k \in 1..Len(PrefixTable) :
                    /\ Len(title) > 0
                    /\ title[1] \in {PrefixTable[k].emoji, PrefixTable[k].code} }
    IN  IF hits = {}
        THEN [prType |-> UncategorizedPR, finalTitle |-> title]
        ELSE [prType |-> PrefixTable[CHOOSE k \in hits : TRUE].type,
              finalTitle |-> Tail(title)]

DetailsText(title) ==
    <<"I saw a title of">> \o title
      \o <<"which doesn't seem to have any of the acceptable prefixes.",
           "You need to have one of these as the prefix of your PR title:",
           "Breaking change:", ":warning:",
           "Non-breaking feature:", ":sparkles:",
           "Patch fix:", ":bug:",
           "Docs:", ":book:",
           "Infra/Tests/Other:", ":seedling:",
           "More details can be found at",
           "https://sigs.k8s.io/kubebuilder-release-tools/VERSIONING.md">>

\* The methods prTitleTypeError has besides Error().
prTitleTypeErrorMethods == {"Details"}

prTitleTypeError(title) ==
    <<Layer(<<"no matching PR type indicator found in title">>,
            prTitleTypeErrorMethods, DetailsText(title))>>

verifyPRType(pr) ==
    LET c == PRTypeFromTitle(pr.title)
    IN  IF c.prType = UncategorizedPR
        THEN [text |-> <<>>, err |-> prTitleTypeError(pr.title)]
        ELSE [text |-> <<"Found", Emoji(c.prType), "PR", c.prType,
                         "with final title:">> \o c.finalTitle,
              err |-> NoErr]

(***************************************************************************)
(* processPR: run the plugin's verification function and parse the result. *)
(***************************************************************************)
\* processPR losing the text of a passing verification.
processPR_noText(p, pr) ==
    LET res == p.ProcessPR[pr]
        i   == errorsAs(res.err)
    IN  IF res.err # NoErr
        THEN [conclusion |-> "failure",
              summary    |-> Error(res.err),
              text       |-> IF i # 0 THEN Help(res.err[i]) ELSE res.text,
              err        |-> res.err]
        ELSE [conclusion |-> "success",
              summary    |-> <<"Success">>,
              text       |-> <<>>,
              err        |-> res.err]

\* processPR testing only the outermost error for help, as a type assertion
\* in place of errors.As would.
processPR_noUnwrap(p, pr) ==
    LET res == p.ProcessPR[pr]
    IN  IF res.err # NoErr
        THEN [conclusion |-> "failure",
              summary    |-> Error(res.err),
              text       |-> IF ErrorWithHelp(res.err[1]) THEN Help(res.err[1])
                             ELSE res.text,
              err        |-> res.err]
        ELSE [conclusion |-> "success",
              summary    |-> <<"Success">>,
              text       |-> res.text,
              err        |-> res.err]

\* p.ProcessPR is a function from pull requests to (text, err).
processPR(p, pr) ==
    LET res == p.ProcessPR[pr]
        i   == errorsAs(res.err)
    IN  IF res.err # NoErr
        THEN [conclusion |-> "failure",
              summary    |-> Error(res.err),
              text       |-> IF i # 0 THEN Help(res.err[i]) ELSE res.text,
              err        |-> res.err]
        ELSE [conclusion |-> "success",
              summary    |-> <<"Success">>,
              text       |-> res.text,
              err        |-> res.err]

(***************************************************************************)
(* Check-runs and the remote Checks API.                                   *)
(*                                                                         *)
(* A world w is what one handler invocation threads through its calls: the *)
(* store (w.runs, a check-run's id is its index), the log of remote calls  *)
(* issued so far (w.calls), the positions of the remote calls that the     *)
(* service will reject (w.fail), the number of times the verification      *)
(* function has been invoked (w.verified) and, for each invocation, how    *)
(* many remote calls had been issued before it (w.at).  A logged call      *)
(* carries what it asked for (arg): the conclusion, else the status.       *)
(***************************************************************************)
NilStr == "<nil>"

Queued == "queued"

Started == "in-progress"

Finished == "completed"

\* status.Equal(s)
StatusEqual(status, s) == status = s

NilOutput == [set |-> FALSE, title |-> <<>>, summary |-> <<>>, text |-> <<>>]

Output(title, summary, text) ==
    [set |-> TRUE, title |-> title, summary |-> summary, text |-> text]

NilRun ==
    [id |-> 0, name |-> "", sha |-> "", status |-> "", conclusion |-> NilStr,
     output |-> NilOutput]

World(rs, fail) ==
    [runs |-> rs, calls |-> <<>>, fail |-> fail, verified |-> 0, at |-> <<>>]

RemoteFails(w) == (Len(w.calls) + 1) \in w.fail

Asked(opts) == IF opts.conclusion # NilStr THEN opts.conclusion ELSE opts.status

Logged(w, op, ok, sha, id, arg) ==
    [w EXCEPT !.calls = Append(@, [op |-> op, ok |-> ok, sha |-> sha, id |-> id,
                                    arg |-> arg])]

RemoteErr == errorsNew(<<"remote API error">>)

\* create-check-run(name, headSHA, status, conclusion, output)
ChecksCreateCheckRun(w, opts) ==
    IF RemoteFails(w)
    THEN [w |-> Logged(w, "create", FALSE, opts.sha, 0, Asked(opts)), run |-> NilRun, err |-> RemoteErr]
    ELSE LET run == [id         |-> Len(w.runs) + 1,
                     name       |-> opts.name,
                     sha        |-> opts.sha,
                     status     |-> IF opts.conclusion # NilStr THEN Finished
                                    ELSE IF opts.status = NilStr THEN Queued
                                    ELSE opts.status,
                     conclusion |-> opts.conclusion,
                     output     |-> opts.output]
             w1  == [w EXCEPT !.runs = Append(@, run)]
         IN  [w |-> Logged(w1, "create", TRUE, opts.sha, run.id, Asked(opts)), run |-> run, err |-> NoErr]

\* list-check-runs(ref, name-filter)
ChecksListCheckRunsForRef(w, ref, name) ==
    IF RemoteFails(w)
    THEN [w |-> Logged(w, "list", FALSE, ref, 0, ""), total |-> 0, checkRuns |-> <<>>,
          err |-> RemoteErr]
    ELSE LET found == SelectSeq(w.runs, LAMBDA r : r.sha = ref /\ r.name = name)
         IN  [w |-> Logged(w, "list", TRUE, ref, 0, ""), total |-> Len(found),
              checkRuns |-> found, err |-> NoErr]

\* update-check-run(id, {status | conclusion, output})
ChecksUpdateCheckRun(w, id, opts) ==
    IF RemoteFails(w) \/ id \notin 1..Len(w.runs)
    THEN [w |-> Logged(w, "update", FALSE, "", id, Asked(opts)), run |-> NilRun, err |-> RemoteErr]
    ELSE LET old == w.runs[id]
             run == IF opts.conclusion # NilStr
                    THEN [old EXCEPT !.name = opts.name,
                                     !.status = Finished,
                                     !.conclusion = opts.conclusion,
                                     !.output = opts.output]
                    ELSE [old EXCEPT !.name = opts.name,
                                     !.status = opts.status,
                                     !.conclusion = NilStr]
             w1  == [w EXCEPT !.runs[id] = run]
         IN  [w |-> Logged(w1, "update", TRUE, run.sha, id, Asked(opts)), run |-> run, err |-> NoErr]

(***************************************************************************)
(* Check API calls of the plugin.  Bind(v, F) names the result v of a call *)
(* for the code F that follows it.                                         *)
(***************************************************************************)
Bind(v, F(_)) == F(v)

createCheckRun(p, w, headSHA) ==
    Bind(ChecksCreateCheckRun(w, [name |-> p.Name, sha |-> headSHA,
                                  status |-> Started, conclusion |-> NilStr,
                                  output |-> NilOutput]),
         LAMBDA r :
            IF r.err # NoErr
            THEN [w |-> r.w, run |-> NilRun,
                  err |-> ErrorfW("unable to create check run:", r.err)]
            ELSE [w |-> r.w, run |-> r.run, err |-> NoErr])

\* getCheckRun settling for the first of several matches.
getCheckRun_pickFirst(p, w, headSHA) ==
    Bind(ChecksListCheckRunsForRef(w, headSHA, p.Name),
         LAMBDA l :
            IF l.err # NoErr
            THEN [w |-> l.w, run |-> NilRun,
                  err |-> ErrorfW("unable to list check runs:", l.err)]
            ELSE IF l.total = 0 THEN createCheckRun(p, l.w, headSHA)
            ELSE [w |-> l.w, run |-> l.checkRuns[1], err |-> NoErr])

\* getCheckRun creating a check-run although one exists already.
getCheckRun_createAgain(p, w, headSHA) ==
    Bind(ChecksListCheckRunsForRef(w, headSHA, p.Name),
         LAMBDA l :
            IF l.err # NoErr
            THEN [w |-> l.w, run |-> NilRun,
                  err |-> ErrorfW("unable to list check runs:", l.err)]
            ELSE IF l.total <= 1 THEN createCheckRun(p, l.w, headSHA)
            ELSE [w |-> l.w, run |-> NilRun,
                  err |-> errorsNew(<<"multiple instances of check run found on",
                                      headSHA>>)])

getCheckRun(p, w, headSHA) ==
    Bind(ChecksListCheckRunsForRef(w, headSHA, p.Name),
         LAMBDA l :
            IF l.err # NoErr
            THEN [w |-> l.w, run |-> NilRun,
                  err |-> ErrorfW("unable to list check runs:", l.err)]
            ELSE IF l.total = 0 THEN createCheckRun(p, l.w, headSHA)
            ELSE IF l.total = 1 THEN [w |-> l.w, run |-> l.checkRuns[1], err |-> NoErr]
            ELSE [w |-> l.w, run |-> NilRun,
                  err |-> errorsNew(<<"multiple instances of check run found on",
                                      headSHA>>)])

\* resetCheckRun returning the check-run without the reset update.
resetCheckRun_noUpdate(p, w, headSHA) ==
    Bind(getCheckRun(p, w, headSHA), LAMBDA g : g)

resetCheckRun(p, w, headSHA) ==
    Bind(getCheckRun(p, w, headSHA),
         LAMBDA g :
            IF g.err # NoErr \/ StatusEqual(Started, g.run.status)
            THEN g
            ELSE Bind(ChecksUpdateCheckRun(g.w, g.run.id,
                          [name |-> p.Name, status |-> "in-progress",
                           conclusion |-> NilStr, output |-> NilOutput]),
                      LAMBDA u :
                         IF u.err # NoErr
                         THEN [w |-> u.w, run |-> u.run,
                               err |-> ErrorfW("unable to reset check run:", u.err)]
                         ELSE [w |-> u.w, run |-> u.run, err |-> NoErr]))

finishCheckRun(p, w, checkRunID, conclusion, summary, text) ==
    Bind(ChecksUpdateCheckRun(w, checkRunID,
             [name |-> p.Name, status |-> NilStr, conclusion |-> conclusion,
              output |-> Output(p.Title, summary, text)]),
         LAMBDA u :
            IF u.err # NoErr
            THEN [w |-> u.w, run |-> u.run,
                  err |-> ErrorfW("unable to update check run with results:", u.err)]
            ELSE [w |-> u.w, run |-> u.run, err |-> NoErr])

duplicateCheckRun(p, w, headSHA, checkRun) ==
    Bind(ChecksCreateCheckRun(w, [name |-> p.Name, sha |-> headSHA,
                                  status |-> checkRun.status,
                                  conclusion |-> checkRun.conclusion,
                                  output |-> checkRun.output]),
         LAMBDA r :
            IF r.err # NoErr
            THEN [w |-> r.w, run |-> NilRun,
                  err |-> ErrorfW("unable to create duplicate check run:", r.err)]
            ELSE [w |-> r.w, run |-> r.run, err |-> NoErr])

(***************************************************************************)
(* processAndSubmit: perform the checks and submit the result.             *)
(***************************************************************************)
\* processAndSubmit reporting only the error of the finish call.
processAndSubmit_finishErrOnly(p, w, pr, checkRun) ==
    Bind(processPR(p, pr),
         LAMBDA o :
            Bind(finishCheckRun(p, [w EXCEPT !.verified = @ + 1,
                                             !.at = Append(@, Len(w.calls))],
                                checkRun.id,
                                o.conclusion, o.summary, o.text),
                 LAMBDA f :
                    IF f.err # NoErr THEN f
                    ELSE [w |-> f.w, run |-> f.run, err |-> NoErr]))

\* processAndSubmit returning a verification error without the finish call.
processAndSubmit_abortOnFailure(p, w, pr, checkRun) ==
    Bind(processPR(p, pr),
         LAMBDA o :
            IF o.err # NoErr
            THEN [w |-> [w EXCEPT !.verified = @ + 1,
                                  !.at = Append(@, Len(w.calls))],
                  run |-> checkRun,
                  err |-> ErrorfV("failed:", Error(o.err))]
            ELSE Bind(finishCheckRun(p, [w EXCEPT !.verified = @ + 1,
                                                  !.at = Append(@, Len(w.calls))],
                                     checkRun.id,
                                     o.conclusion, o.summary, o.text),
                      LAMBDA f :
                         IF f.err # NoErr THEN f
                         ELSE [w |-> f.w, run |-> f.run, err |-> NoErr]))

processAndSubmit(p, w, pr, checkRun) ==
    Bind(processPR(p, pr),
         LAMBDA o :
            Bind(finishCheckRun(p, [w EXCEPT !.verified = @ + 1,
                                             !.at = Append(@, Len(w.calls))],
                                checkRun.id,
                                o.conclusion, o.summary, o.text),
                 LAMBDA f :
                    IF f.err # NoErr THEN f
                    ELSE IF o.err # NoErr
                    THEN [w |-> f.w, run |-> f.run,
                          err |-> ErrorfV("failed:", Error(o.err))]
                    ELSE [w |-> f.w, run |-> f.run, err |-> NoErr]))

(***************************************************************************)
(* Entrypoint and the four handlers.  An event e carries its action kind,  *)
(* the pull request snapshot (title, head SHA) and, for synchronize, the   *)
(* previous and the new head SHA.                                          *)
(***************************************************************************)
\* Dereferencing a nil pointer panics.
NilDeref == errorsNew(<<"panic: nil pointer dereference">>)

\* The tail shared by onReopen and onSync: report a failed conclusion.
FailureOf(w, checkRun) ==
    IF checkRun.conclusion = NilStr THEN [w |-> w, err |-> NilDeref]
    ELSE IF checkRun.conclusion = "failure"
    THEN IF ~checkRun.output.set THEN [w |-> w, err |-> NilDeref]
         ELSE [w |-> w, err |-> ErrorfV("failed:", checkRun.output.summary)]
    ELSE [w |-> w, err |-> NoErr]

\* A handler returns the error alone.
Returned(r) == [w |-> r.w, err |-> r.err]

\* onOpen looking the check-run up before creating it.
onOpen_lookupFirst(p, w, e) ==
    Bind(getCheckRun(p, w, e.pr.head),
         LAMBDA c :
            IF c.err # NoErr THEN Returned(c)
            ELSE Returned(processAndSubmit(p, c.w, e.pr, c.run)))

\* onOpen going on to verify after a create call that failed.
onOpen_ignoreCreateErr(p, w, e) ==
    Bind(createCheckRun(p, w, e.pr.head),
         LAMBDA c : Returned(processAndSubmit(p, c.w, e.pr, c.run)))

onOpen(p, w, e) ==
    Bind(createCheckRun(p, w, e.pr.head),
         LAMBDA c :
            IF c.err # NoErr THEN Returned(c)
            ELSE Returned(processAndSubmit(p, c.w, e.pr, c.run)))

\* onReopen running the verification whatever the status of the check-run.
onReopen_alwaysRerun(p, w, e) ==
    Bind(getCheckRun(p, w, e.pr.head),
         LAMBDA g :
            IF g.err # NoErr THEN Returned(g)
            ELSE Returned(processAndSubmit(p, g.w, e.pr, g.run)))

\* onReopen resetting the check-run as onEdit does.
onReopen_resetFirst(p, w, e) ==
    Bind(resetCheckRun(p, w, e.pr.head),
         LAMBDA g :
            IF g.err # NoErr THEN Returned(g)
            ELSE IF ~StatusEqual(Finished, g.run.status)
            THEN Returned(processAndSubmit(p, g.w, e.pr, g.run))
            ELSE FailureOf(g.w, g.run))

onReopen(p, w, e) ==
    Bind(getCheckRun(p, w, e.pr.head),
         LAMBDA g :
            IF g.err # NoErr THEN Returned(g)
            ELSE IF ~StatusEqual(Finished, g.run.status)
            THEN Returned(processAndSubmit(p, g.w, e.pr, g.run))
            ELSE FailureOf(g.w, g.run))

onEdit(p, w, e) ==
    Bind(resetCheckRun(p, w, e.pr.head),
         LAMBDA r :
            IF r.err # NoErr THEN Returned(r)
            ELSE Returned(processAndSubmit(p, r.w, e.pr, r.run)))

\* onSync duplicating the check-run as it was fetched, not as it was finished.
onSync_copyFetched(p, w, e) ==
    Bind(getCheckRun(p, w, e.before),
         LAMBDA g :
            IF g.err # NoErr THEN Returned(g)
            ELSE Bind(IF ~StatusEqual(Finished, g.run.status)
                      THEN processAndSubmit(p, g.w, e.pr, g.run)
                      ELSE g,
                      LAMBDA s :
                         IF s.err # NoErr THEN Returned(s)
                         ELSE Bind(duplicateCheckRun(p, s.w, e.after, g.run),
                                   LAMBDA d :
                                      IF d.err # NoErr THEN Returned(d)
                                      ELSE FailureOf(d.w, d.run))))

\* onSync verifying again whatever the status of the old check-run.
onSync_alwaysRerun(p, w, e) ==
    Bind(getCheckRun(p, w, e.before),
         LAMBDA g :
            IF g.err # NoErr THEN Returned(g)
            ELSE Bind(processAndSubmit(p, g.w, e.pr, g.run),
                      LAMBDA s :
                         IF s.err # NoErr THEN Returned(s)
                         ELSE Bind(duplicateCheckRun(p, s.w, e.after, s.run),
                                   LAMBDA d :
                                      IF d.err # NoErr THEN Returned(d)
                                      ELSE FailureOf(d.w, d.run))))

onSync(p, w, e) ==
    Bind(getCheckRun(p, w, e.before),
         LAMBDA g :
            IF g.err # NoErr THEN Returned(g)
            ELSE Bind(IF ~StatusEqual(Finished, g.run.status)
                      THEN processAndSubmit(p, g.w, e.pr, g.run)
                      ELSE g,
                      LAMBDA s :
                         IF s.err # NoErr THEN Returned(s)
                         ELSE Bind(duplicateCheckRun(p, s.w, e.after, s.run),
                                   LAMBDA d :
                                      IF d.err # NoErr THEN Returned(d)
                                      ELSE FailureOf(d.w, d.run))))

\* entrypoint treating every other action as an edit.
entrypoint_defaultEdit(p, w, e) ==
    CASE e.action = "open"        -> onOpen(p, w, e)
      [] e.action = "reopen"      -> onReopen(p, w, e)
      [] e.action = "synchronize" -> onSync(p, w, e)
      [] OTHER                    -> onEdit(p, w, e)

entrypoint(p, w, e) ==
    CASE e.action = "open"        -> onOpen(p, w, e)
      [] e.action = "reopen"      -> onReopen(p, w, e)
      [] e.action = "edit"        -> onEdit(p, w, e)
      [] e.action = "synchronize" -> onSync(p, w, e)
      [] OTHER                    -> [w |-> w, err |-> NoErr]

(***************************************************************************)
(* Inputs.                                                                 *)
(***************************************************************************)
SHAs == {"sha1", "sha2"}

Titles == { <<":sparkles:", "Add", "widgets">>, <<"Add", "widgets">> }

PRs == [title : Titles, head : SHAs]

\* The remote calls the service rejects during one event: none, or the i-th.
FailSets == {{}} \cup { {i} : i \in 1..MaxCalls }

\* The plugin that checks the PR title type.
TypePlugin ==
    [Name      |-> "PR Type",
     Title     |-> <<"PR Type in Title">>,
     ProcessPR |-> [pr \in PRs |-> verifyPRType(pr)]]

Plugins == {TypePlugin}

\* Verification functions in general: what one may return for a pull request.
Texts == { <<>>, <<"details">> }

Msgs == { <<"m1">>, <<"m2">> }

Exts == { <<>>, <<"how to fix">> }

\* Plain errors, and errors with a Help() or a Details() method.
Layers ==
    { Layer(m, {}, <<>>) : m \in Msgs }
      \cup { Layer(m, ms, x) : m \in Msgs, ms \in {{"Help"}, {"Details"}}, x \in Exts }

Chains == UNION { [1..n -> Layers] : n \in 1..MaxChain }

Results == [text : Texts, err : {NoErr} \cup Chains]

\* A plugin whose verification function returns res for every pull request.
ConstPlugin(res) ==
    [Name      |-> "PR Check",
     Title     |-> <<"PR Check">>,
     ProcessPR |-> [pr \in PRs |-> res]]

RunnerPlugins == {TypePlugin} \cup { ConstPlugin(res) : res \in Results }

Event(action, pr, before, after) ==
    [action |-> action, pr |-> pr, before |-> before, after |-> after]

\* The events delivered: the head of a synchronize event has moved from
\* before to after, which is the head of the pull request snapshot.
Events ==
    { Event(a, pr, "", "") : a \in {"open", "reopen", "edit", "closed"}, pr \in PRs }
      \cup { ev \in { Event("synchronize", pr, b, pr.head) : pr \in PRs, b \in SHAs } :
                ev.before # ev.after }

NilOut == [conclusion |-> "", summary |-> <<>>, text |-> <<>>, err |-> NoErr]

NilRes == [text |-> <<>>, err |-> NoErr]

AllOk(calls) == \A i \in 1..Len(calls) : calls[i].ok

(***************************************************************************)
(* State: the store of check-runs and a record of the last operation: its  *)
(* plugin and arguments, the store before it (pre), the remote calls it    *)
(* issued, how often and after how many of them it ran the verification    *)
(* function (verified, at), what that returned                             *)
(* (res) and how processPR parsed it (out), the check-run and the error    *)
(* the operation returned; whether it repeats the operation before it with *)
(* no remote call rejected in either (again) and, if so, the check-run     *)
(* that one returned (prevRun) and how many it created (prevMade); and     *)
(* whether no remote call has been rejected so far (clean).                *)
(***************************************************************************)
Again(op, p, e, w) ==
    /\ last.op = op /\ last.p = p.Name /\ last.e = e
    /\ AllOk(last.calls) /\ AllOk(w.calls)

Record(op, p, e, w, run, err, res, out) ==
    [op       |-> op,
     p        |-> p.Name,
     e        |-> e,
     pre      |-> runs,
     calls    |-> w.calls,
     verified |-> w.verified,
     at       |-> w.at,
     run      |-> run,
     err      |-> err,
     res      |-> res,
     out      |-> out,
     again    |-> Again(op, p, e, w),
     prevRun  |-> IF Again(op, p, e, w) THEN last.run.id ELSE 0,
     prevMade |-> IF Again(op, p, e, w) THEN Len(runs) - Len(last.pre) ELSE 0,
     clean    |-> last.clean /\ AllOk(w.calls)]

\* A check-run of another application on the same commit.
ForeignRun(sha) ==
    [id |-> 1, name |-> "ci/build", sha |-> sha, status |-> Finished,
     conclusion |-> "success", output |-> NilOutput]

Init ==
    /\ runs \in {<<>>} \cup { <<ForeignRun(sha)>> : sha \in SHAs }
    /\ last = [op |-> "init", p |-> "",
               e |-> Event("", [title |-> <<>>, head |-> ""], "", ""),
               pre |-> runs, calls |-> <<>>, verified |-> 0, at |-> <<>>,
               run |-> NilRun,
               err |-> NoErr, res |-> NilRes, out |-> NilOut,
               again |-> FALSE, prevRun |-> 0, prevMade |-> 0, clean |-> TRUE]

\* One PR event, processed to completion by entrypoint.
Deliver(p, e, fail) ==
    LET r == entrypoint(p, World(runs, fail), e)
    IN  /\ Len(r.w.runs) <= MaxRuns
        /\ runs' = r.w.runs
        /\ last' = Record("entrypoint", p, e, r.w, NilRun, r.err,
                          IF r.w.verified > 0 THEN p.ProcessPR[e.pr] ELSE NilRes,
                          IF r.w.verified > 0 THEN processPR(p, e.pr) ELSE NilOut)

Open ==
    \E p \in Plugins, e \in Events, fail \in FailSets :
        /\ e.action = "open"
        /\ Deliver(p, e, fail)

Reopen ==
    \E p \in Plugins, e \in Events, fail \in FailSets :
        /\ e.action = "reopen"
        /\ Deliver(p, e, fail)

Edit ==
    \E p \in Plugins, e \in Events, fail \in FailSets :
        /\ e.action = "edit"
        /\ Deliver(p, e, fail)

Synchronize ==
    \E p \in Plugins, e \in Events, fail \in FailSets :
        /\ e.action = "synchronize"
        /\ Deliver(p, e, fail)

\* Any other action kind.
Other ==
    \E p \in Plugins, e \in Events, fail \in FailSets :
        /\ e.action \notin {"open", "reopen", "edit", "synchronize"}
        /\ Deliver(p, e, fail)

Next == Open \/ Reopen \/ Edit \/ Synchronize \/ Other

Spec == Init /\ [][Next]_vars

(***************************************************************************)
(* The verification runner on its own: processPR applied once to a         *)
(* verification function in general.                                       *)
(***************************************************************************)
RunProcessPR ==
    \E p \in RunnerPlugins, pr \in PRs :
        LET o == processPR(p, pr)
        IN  /\ last.op = "init"
            /\ runs' = runs
            /\ last' = Record("processPR", p, Event("", pr, "", ""),
                              [World(runs, {}) EXCEPT !.verified = 1, !.at = <<0>>],
                              NilRun, o.err, p.ProcessPR[pr], o)

NextRunner == RunProcessPR

SpecRunner == Init /\ [][NextRunner]_vars

(***************************************************************************)
(* The store operations on their own: getCheckRun called directly, between *)
(* open events.                                                            *)
(***************************************************************************)
CallGetCheckRun ==
    \E p \in Plugins, sha \in SHAs, fail \in FailSets :
        LET g == getCheckRun(p, World(runs, fail), sha)
        IN  /\ Len(g.w.runs) <= MaxRuns
            /\ runs' = g.w.runs
            /\ last' = Record("getCheckRun", p,
                              Event("", [title |-> <<>>, head |-> sha], "", ""),
                              g.w, g.run, g.err, NilRes, NilOut)

NextStore == Open \/ CallGetCheckRun

SpecStore == Init /\ [][NextStore]_vars

(***************************************************************************)
(* Properties of the verification runner (SpecRunner).                     *)
(***************************************************************************)
Ran == last.op = "processPR"

\* The help text an error exposes: that of the first layer with Help().
HelpOf(err) == Help(err[errorsAs(err)])

\* C1: when the verification function returns (text, nil), processPR yields
\* conclusion "success", summary "Success", exactly that text, and a nil
\* error.
C1_SuccessOutcome ==
    (Ran /\ last.res.err = NoErr) =>
        /\ last.out.conclusion = "success"
        /\ last.out.summary = <<"Success">>
        /\ last.out.text = last.res.text
        /\ last.out.err = NoErr
        /\ last.err = NoErr

C1_Witness ==
    /\ Ran
    /\ last.res.err = NoErr
    /\ last.res.text = <<"details">>
    /\ last.out.text = <<"details">>

\* C2: when the verification function returns (t, err) with err non-nil and
\* without the help capability, processPR yields conclusion "failure" and
\* both summary and text equal to err's message, whatever t is.
C2_PlainFailureTextIsMessage ==
    (Ran /\ last.res.err # NoErr /\ errorsAs(last.res.err) = 0) =>
        /\ last.out.conclusion = "failure"
        /\ last.out.summary = Error(last.res.err)
        /\ last.out.text = Error(last.res.err)

\* C3: when the verification function returns an error that exposes help
\* text H, processPR yields conclusion "failure", text H (neither the text
\* the function returned nor the error's message) and summary the error's
\* message.
C3_HelpFailureOutcome ==
    (Ran /\ last.res.err # NoErr /\ errorsAs(last.res.err) # 0) =>
        /\ last.out.conclusion = "failure"
        /\ last.out.text = HelpOf(last.res.err)
        /\ last.out.summary = Error(last.res.err)
        /\ last.out.err = last.res.err

C3_Witness ==
    /\ Ran
    /\ Len(last.res.err) = 2
    /\ ~ErrorWithHelp(last.res.err[1])
    /\ ErrorWithHelp(last.res.err[2])
    /\ last.res.err[2].ext = <<"how to fix">>
    /\ last.res.text = <<"details">>
    /\ last.out.text = <<"how to fix">>
    /\ last.out.summary = last.res.err[1].msg

\* C4: for a title the classifier reports as uncategorized, the error of
\* verifyPRType exposes the help capability processPR tests for, and
\* processPR yields a failure whose text is the extended help text (the
\* acceptable prefixes and the reference link).
C4_TitleErrorHelpReachesText ==
    (/\ Ran
     /\ last.p = TypePlugin.Name
     /\ PRTypeFromTitle(last.e.pr.title).prType = UncategorizedPR) =>
        /\ last.out.conclusion = "failure"
        /\ errorsAs(last.res.err) # 0
        /\ last.out.text = DetailsText(last.e.pr.title)

(***************************************************************************)
(* Properties of the check-run store and of the event handlers.            *)
(***************************************************************************)
\* The check-runs of rs with the given name on the given commit.
Matches(rs, name, sha) == SelectSeq(rs, LAMBDA r : r.sha = sha /\ r.name = name)

\* The kinds of remote call an operation issued.
Ops(calls) == { calls[i].op : i \in 1..Len(calls) }

Keys(rs) == { <<rs[i].sha, rs[i].name>> : i \in 1..Len(rs) }

Got == last.op = "getCheckRun"

Handled(action) == last.op = "entrypoint" /\ last.e.action = action

\* The matches getCheckRun or the handler found for its check-run: on the
\* head SHA, for synchronize on the previous head SHA.
Found ==
    Matches(last.pre, last.p,
            IF last.e.action = "synchronize" THEN last.e.before ELSE last.e.pr.head)

\* C5: getCheckRun for a (name, sha) with two or more check-runs in the
\* store returns an error and no check-run, issues no create or update
\* call, and leaves the store as it was.
C5_AmbiguousIsError ==
    (Got /\ Len(Found) >= 2) =>
        /\ last.err # NoErr
        /\ last.run = NilRun
        /\ Ops(last.calls) \subseteq {"list"}
        /\ runs = last.pre

C5_Witness ==
    /\ Got
    /\ Len(Found) >= 2
    /\ Len(last.calls) = 1
    /\ last.calls[1].ok
    /\ last.err # NoErr

\* C6: getCheckRun for a (name, sha) with no check-run in the store, all
\* remote calls succeeding, creates exactly one check-run and returns it; a
\* second call for the same (name, sha) right after it returns that same
\* check-run and creates nothing, and the store holds exactly one match.
C6_GetOrCreateOnce ==
    /\ (Got /\ Len(Found) = 0 /\ AllOk(last.calls)) =>
          /\ last.err = NoErr
          /\ runs = Append(last.pre, last.run)
          /\ last.run.name = last.p
          /\ last.run.sha = last.e.pr.head
          /\ Len(Matches(runs, last.p, last.e.pr.head)) = 1
    /\ (Got /\ last.again /\ last.prevMade = 1) =>
          /\ last.err = NoErr
          /\ last.run.id = last.prevRun
          /\ last.run = last.pre[last.prevRun]
          /\ runs = last.pre
          /\ Ops(last.calls) = {"list"}
          /\ Len(Matches(runs, last.p, last.e.pr.head)) = 1

C6_Witness ==
    /\ Got
    /\ last.again
    /\ last.prevMade = 1
    /\ last.run.id = last.prevRun
    /\ last.run.id = Len(runs)

\* C7: after any sequence of PR events processed one at a time, starting
\* from an empty store (every check-run is the plugin's own) and with every
\* remote call succeeding, the store holds at most one check-run for any
\* (commit SHA, name).
C7_AtMostOnePerCommitAndName ==
    (/\ last.clean
     /\ \A i \in 1..Len(runs) : runs[i].name = TypePlugin.Name) =>
        \A i, j \in 1..Len(runs) :
            (runs[i].sha = runs[j].sha /\ runs[i].name = runs[j].name) => i = j

\* C8: processing the same event a second time right after the first, all
\* remote calls succeeding, creates no further check-run: the check-runs by
\* (commit SHA, name) are those after the first delivery.
C8_RedeliveryCreatesNothing ==
    (last.op = "entrypoint" /\ last.again) =>
        /\ Len(runs) = Len(last.pre)
        /\ Keys(runs) = Keys(last.pre)

\* C9: on a reopen event where the one check-run on the head SHA is
\* completed with conclusion "failure", the handler returns an error, does
\* not run the verification function and updates no check-run.
C9_ReopenFailedRunIsError ==
    (/\ Handled("reopen")
     /\ Len(Found) = 1
     /\ Found[1].status = Finished
     /\ Found[1].conclusion = "failure") =>
        /\ last.err # NoErr
        /\ last.verified = 0
        /\ Ops(last.calls) \subseteq {"list"}
        /\ runs = last.pre

C9_Witness ==
    /\ Handled("reopen")
    /\ Len(Found) = 1
    /\ Found[1].status = Finished
    /\ Found[1].conclusion = "failure"
    /\ AllOk(last.calls)
    /\ last.err = ErrorfV("failed:", Found[1].output.summary)

\* C10: after every synchronize event whose remote calls all succeed, there
\* is exactly one more check-run on the new head SHA than before it.
C10_SyncAlwaysDuplicates ==
    (Handled("synchronize") /\ AllOk(last.calls)) =>
        Len(Matches(runs, last.p, last.e.after))
            = Len(Matches(last.pre, last.p, last.e.after)) + 1

\* The last remote call of the operation.
LastCall == last.calls[Len(last.calls)]

\* The synchronize event created the check-run for the new head SHA.
Duplicated ==
    /\ Handled("synchronize")
    /\ Len(last.calls) >= 2
    /\ LastCall.op = "create"
    /\ LastCall.ok
    /\ LastCall.sha = last.e.after

\* The check-run a handler got from getCheckRun: the one match, else the
\* one created by the call after the list call.
GotId == IF Len(Found) = 1 THEN Found[1].id ELSE last.calls[2].id

\* C11: the check-run a synchronize event creates for the new head SHA has
\* the name, status, conclusion and output of the old-SHA run as it stands
\* after the event (after any verification and finish done in it), and its
\* commit SHA is the new head SHA.
C11_DuplicateCopiesFinishedRun ==
    Duplicated =>
        /\ runs[LastCall.id].sha = last.e.after
        /\ runs[GotId].sha = last.e.before
        /\ runs[LastCall.id].name = runs[GotId].name
        /\ runs[LastCall.id].status = runs[GotId].status
        /\ runs[LastCall.id].conclusion = runs[GotId].conclusion
        /\ runs[LastCall.id].output = runs[GotId].output

C11_Witness ==
    /\ Duplicated
    /\ last.verified = 1
    /\ Len(Found) = 1
    /\ last.pre[GotId].status = Started
    /\ runs[GotId].status = Finished
    /\ runs[LastCall.id].conclusion = "success"
    /\ runs[LastCall.id].output.set

\* The verification ran in the handled event and failed.
FreshFailure ==
    /\ last.op = "entrypoint"
    /\ last.verified > 0
    /\ last.out.conclusion = "failure"

\* A reopened event found the one check-run completed with a failure.
ReopenedFailed ==
    /\ Handled("reopen")
    /\ Len(Found) = 1
    /\ StatusEqual(Finished, Found[1].status)
    /\ Found[1].conclusion = "failure"

\* A synchronize event created a duplicate with a failure conclusion.
DuplicatedFailed ==
    /\ Duplicated
    /\ runs[LastCall.id].conclusion = "failure"

\* C12: an opened, reopened, edited or synchronized event that concludes
\* with or discovers a "failure" conclusion (a fresh verification failure,
\* a completed failed run on reopen, a failed duplicate on synchronize)
\* makes entrypoint return a non-nil error.
C12_FailureIsReturned ==
    (FreshFailure \/ ReopenedFailed \/ DuplicatedFailed) => last.err # NoErr

C12_Witness ==
    /\ DuplicatedFailed
    /\ last.verified = 0
    /\ last.err = ErrorfV("failed:", runs[LastCall.id].output.summary)

\* The SHA the handled event looks its check-run up on.
LookupSHA ==
    IF last.e.action = "synchronize" THEN last.e.before ELSE last.e.pr.head

\* The title the plugin of the handled event gives its check-runs.
TitleOf(name) == (CHOOSE p \in Plugins : p.Name = name).Title

\* The remote call issued right after the verification function returned.
FinishCall == last.calls[last.at[1] + 1]

\* C13: when the verification function ran and failed, the next remote call
\* is the finish call asking for conclusion "failure" on the check-run of
\* the event; if it is accepted the run holds the conclusion, summary and
\* text of the verification; the handler returns an error only after it.
C13_FailureRecordedBeforeReturn ==
    FreshFailure =>
        /\ Len(last.calls) > last.at[1]
        /\ FinishCall.op = "update"
        /\ FinishCall.arg = "failure"
        /\ runs[FinishCall.id].name = last.p
        /\ runs[FinishCall.id].sha = LookupSHA
        /\ FinishCall.ok =>
              /\ StatusEqual(Finished, runs[FinishCall.id].status)
              /\ runs[FinishCall.id].conclusion = "failure"
              /\ runs[FinishCall.id].output =
                    Output(TitleOf(last.p), last.out.summary, last.out.text)
        /\ last.err # NoErr

C13_Witness ==
    /\ FreshFailure
    /\ Handled("edit")
    /\ FinishCall.ok
    /\ FinishCall.id \in 1..Len(last.pre)
    /\ last.pre[FinishCall.id].conclusion = "success"
    /\ runs[FinishCall.id].conclusion = "failure"
    /\ last.err = ErrorfV("failed:", Error(last.out.err))

\* The action kinds entrypoint has a handler for.
HandledKinds == {"open", "reopen", "edit", "synchronize"}

\* C14: an event whose action is none of the four handled kinds causes no
\* remote call, does not run the verification function, leaves the store
\* unchanged, and entrypoint returns a nil error.
C14_OtherEventIsNoOp ==
    (last.op = "entrypoint" /\ last.e.action \notin HandledKinds) =>
        /\ last.calls = <<>>
        /\ last.verified = 0
        /\ runs = last.pre
        /\ last.err = NoErr

C14_Witness ==
    /\ Handled("closed")
    /\ Len(Found) >= 1
    /\ ~StatusEqual(Finished, Found[1].status)
    /\ runs = last.pre

\* C15: an opened event issues, with no lookup before, a create call for
\* the head SHA, then runs the verification function once, then issues the
\* finish call on the created check-run with the outcome of the
\* verification; when every remote call succeeds the created run is
\* completed with the conclusion of that verification.
C15_OpenCreatesVerifiesFinishes ==
    Handled("open") =>
        /\ "list" \notin Ops(last.calls)
        /\ Len(last.calls) >= 1
        /\ last.calls[1].op = "create"
        /\ last.calls[1].sha = last.e.pr.head
        /\ last.calls[1].arg = Started
        /\ ~last.calls[1].ok => (last.verified = 0 /\ Len(last.calls) = 1)
        /\ last.calls[1].ok =>
              /\ last.verified = 1
              /\ last.at = <<1>>
              /\ Len(last.calls) = 2
              /\ last.calls[2].op = "update"
              /\ last.calls[2].id = last.calls[1].id
              /\ last.calls[2].arg = last.out.conclusion
              /\ last.out.conclusion \in {"success", "failure"}
        /\ AllOk(last.calls) =>
              /\ Len(runs) = Len(last.pre) + 1
              /\ runs[last.calls[1].id].name = last.p
              /\ runs[last.calls[1].id].sha = last.e.pr.head
              /\ StatusEqual(Finished, runs[last.calls[1].id].status)
              /\ runs[last.calls[1].id].conclusion = last.out.conclusion

C15_Witness ==
    /\ Handled("open")
    /\ AllOk(last.calls)
    /\ Len(last.calls) = 2
    /\ Len(Found) = 1
    /\ runs[last.calls[1].id].conclusion = "failure"
    /\ runs[last.calls[1].id].id = Len(runs)

\* A reset update on the check-run of the event was issued before the
\* verification function ran.
ResetIssued ==
    \E i \in 1..last.at[1] :
        /\ last.calls[i].op = "update"
        /\ last.calls[i].arg = Started
        /\ last.calls[i].id = GotId

\* C16: an edited event with at most one check-run on the head SHA fetches
\* or creates the run; the update to in-progress precedes the verification
\* if and only if the run was not in-progress already; the verification
\* function runs once, and when every remote call succeeds the run is
\* finished with the conclusion of that verification, whatever it held.
C16_EditResetsVerifiesFinishes ==
    (Handled("edit") /\ Len(Found) <= 1) =>
        /\ last.calls[1].op = "list"
        /\ last.calls[1].sha = last.e.pr.head
        /\ last.verified <= 1
        /\ last.verified = 1 =>
              /\ Len(Found) = 0 =>
                    (last.calls[2].op = "create" /\ last.calls[2].sha = last.e.pr.head)
              /\ ResetIssued <=>
                    (Len(Found) = 1 /\ ~StatusEqual(Started, Found[1].status))
              /\ Len(last.calls) = last.at[1] + 1
              /\ FinishCall.op = "update"
              /\ FinishCall.id = GotId
              /\ FinishCall.arg = last.out.conclusion
        /\ AllOk(last.calls) =>
              /\ last.verified = 1
              /\ Len(runs) = IF Len(Found) = 0 THEN Len(last.pre) + 1 ELSE Len(last.pre)
              /\ runs[GotId].sha = last.e.pr.head
              /\ StatusEqual(Finished, runs[GotId].status)
              /\ runs[GotId].conclusion = last.out.conclusion

C16_Witness ==
    /\ Handled("edit")
    /\ Len(Found) = 1
    /\ AllOk(last.calls)
    /\ ResetIssued
    /\ Found[1].conclusion = "failure"
    /\ runs[GotId].conclusion = "success"

\* An edited event that found its run in-progress and issued no reset.
C16_NoResetCase ==
    /\ Handled("edit")
    /\ Len(Found) = 1
    /\ StatusEqual(Started, Found[1].status)
    /\ last.verified = 1
    /\ ~ResetIssued

\* A reopened event whose one check-run on the head SHA is completed with
\* conclusion "success", the lookup having succeeded.
ReopenedSucceeded ==
    /\ Handled("reopen")
    /\ Len(Found) = 1
    /\ StatusEqual(Finished, Found[1].status)
    /\ Found[1].conclusion = "success"

\* C17: a reopened event whose single check-run on the head SHA is
\* completed with conclusion "success" does not run the verification
\* function, issues no create or update call, leaves the check-run (and the
\* store) unchanged, and, its lookup answered, returns a nil error.
C17_ReopenSucceededIsNoOp ==
    ReopenedSucceeded =>
        /\ last.verified = 0
        /\ Ops(last.calls) = {"list"}
        /\ Len(last.calls) = 1
        /\ runs = last.pre
        /\ runs[Found[1].id] = Found[1]
        /\ AllOk(last.calls) => last.err = NoErr

C17_Witness ==
    /\ ReopenedSucceeded
    /\ AllOk(last.calls)
    /\ Len(last.calls) = 1
    /\ Found[1].output.set
    /\ last.err = NoErr

\* The check-runs of the plugin that were completed on the previous head
\* SHA before the event, by position in the store.
CompletedOld ==
    { i \in 1..Len(last.pre) :
        /\ last.pre[i].name = last.p
        /\ last.pre[i].sha = last.e.before
        /\ StatusEqual(Finished, last.pre[i].status) }

\* C18: a synchronize event never modifies a check-run already completed on
\* the previous head SHA: no update call names it, the verification
\* function is not run, and the record is after the event what it was
\* before; the new commit gets a record of its own and no record changes
\* its commit SHA.
C18_SyncKeepsCompletedRun ==
    Handled("synchronize") =>
        /\ \A i \in CompletedOld :
              /\ runs[i] = last.pre[i]
              /\ \A k \in 1..Len(last.calls) :
                    last.calls[k].op = "update" => last.calls[k].id # i
        /\ CompletedOld # {} => last.verified = 0
        /\ Len(runs) >= Len(last.pre)
        /\ \A i \in 1..Len(last.pre) : runs[i].sha = last.pre[i].sha
        /\ Duplicated =>
              /\ LastCall.id \notin 1..Len(last.pre)
              /\ runs[LastCall.id].sha = last.e.after
        /\ (Len(Found) = 1 /\ CompletedOld # {} /\ AllOk(last.calls)) =>
              (Duplicated /\ Len(runs) = Len(last.pre) + 1)

C18_Witness ==
    /\ Handled("synchronize")
    /\ Len(Found) = 1
    /\ CompletedOld = {Found[1].id}
    /\ Duplicated
    /\ runs[Found[1].id] = Found[1]
    /\ runs[LastCall.id].sha # Found[1].sha
    /\ runs[LastCall.id].conclusion = Found[1].conclusion

\* The positions of the remote calls of the operation that failed.
FailedCalls == { i \in 1..Len(last.calls) : ~last.calls[i].ok }

\* C19: in every handled event the first remote call that fails (list,
\* create, reset update, finish update or duplicate create) is the last
\* call of the transition: none follows it, none repeats it, the
\* verification function does not run after it, and the handler returns a
\* non-nil error.
C19_RemoteFailureEndsTransition ==
    last.op = "entrypoint" =>
        \A i \in FailedCalls :
            /\ i = Len(last.calls)
            /\ \A k \in 1..Len(last.at) : last.at[k] < i
            /\ last.err # NoErr

C19_Witness ==
    /\ Handled("synchronize")
    /\ FailedCalls = {4}
    /\ LastCall.op = "create"
    /\ LastCall.sha = last.e.after
    /\ last.verified = 1
    /\ Len(runs) = Len(last.pre) + 1
    /\ last.err # NoErr

\* The head SHA of the pull request after the event.
HeadSHA ==
    IF last.e.action = "synchronize" THEN last.e.after ELSE last.e.pr.head

\* The check-runs of the plugin on the head SHA after the event.
OnHead == Matches(runs, last.p, HeadSHA)

\* A handled event made entrypoint return a nil error.
ReturnedNil ==
    /\ last.op = "entrypoint"
    /\ last.e.action \in HandledKinds
    /\ last.err = NoErr

Succeeded(r) == StatusEqual(Finished, r.status) /\ r.conclusion = "success"

\* After a nil return some check-run of the plugin on the head SHA is
\* completed with conclusion "success".
C20_NilReturnHasSucceededRun ==
    ReturnedNil => \E i \in 1..Len(OnHead) : Succeeded(OnHead[i])

\* C20: when entrypoint returns a nil error for an opened, reopened, edited
\* or synchronized event, a check-run on the head SHA (the new one for
\* synchronize) is completed with conclusion "success", and no check-run
\* of the plugin on that SHA is unfinished or failed.
C20_NilReturnMeansSucceeded ==
    ReturnedNil =>
        /\ \E i \in 1..Len(OnHead) : Succeeded(OnHead[i])
        /\ \A i \in 1..Len(OnHead) : Succeeded(OnHead[i])

\* entrypoint returned nil while a failed check-run of the plugin stands on
\* the head SHA beside the succeeded one.
C20_NilReturnBesideFailedRun ==
    /\ ReturnedNil
    /\ \E i \in 1..Len(OnHead) : Succeeded(OnHead[i])
    /\ \E i \in 1..Len(OnHead) :
          /\ StatusEqual(Finished, OnHead[i].status)
          /\ OnHead[i].conclusion = "failure"

\* With one check-run of the plugin on the head SHA, a nil return does
\* mean that run succeeded.
C20_NilReturnOfOnlyRun ==
    (ReturnedNil /\ Len(OnHead) = 1) => Succeeded(OnHead[1])

====
